---- MODULE Spec2Model ----
(***************************************************************************)
(* Model of the sports-analyzer backend: the upload endpoint               *)
(* POST /api/analyze-video (server part of claudeService.js, lines 328 on),*)
(* the pipeline VideoProcessor.processVideo (videoProcessor.js) and the    *)
(* inference client ClaudeService (claudeService.js).                      *)
(*                                                                         *)
(* One request is followed from the multipart upload to its response.      *)
(* External parties (the transcoder, the inference API, the 300 s timer)   *)
(* are nondeterministic.  Strings the code inspects are sequences of       *)
(* symbols: characters for file names, MIME types and the fps field,       *)
(* words for prompts and feedback texts.                                   *)
(***************************************************************************)
EXTENDS Integers, Sequences, FiniteSets, TLC

VARIABLES
    envDevMode,      \* process.env.DEV_MODE
    devMode,         \* config.DEV_MODE
    reqFile,         \* the uploaded part named "video" (before / after multer)
    reqBody,         \* req.body: the raw text fields prompt, fps, testMode
    pc,              \* where the request is in the server
    requestTimeout,  \* the handler's 300 s timer
    res,             \* the response sent on the wire
    failedSends,     \* statuses of later send attempts (headers already sent)
    pv,              \* where processVideo is
    pvArgs,          \* (prompt, fps, testMode) handed to processVideo
    pvResult,        \* settlement of the processVideo promise
    duration,        \* probed duration, in 1/DurUnit seconds
    maxFrames,       \* min(ceil(duration * fps), 30)
    sortedFrames,    \* names of the frames to analyse
    frameAnalyses,   \* the per-frame analysis list
    outcomes,        \* per frame: how its inference call ended
    tempFiles,       \* temporary artefacts of this request that exist
    started,         \* external operations processVideo has started, in order
    inflight,        \* inference calls of this request started and not settled
    overlayCommand,  \* the transcoder command built by createVideoWithOverlay
    input,           \* argument of a function that is applied on its own
    output,          \* what the function returned for `input`
    cache,           \* the inference cache directory: key -> entry
    calls,           \* analyzeFrame calls of concurrent callers
    succeeded,       \* (frame, prompt) pairs for which analyzeFrame has succeeded
    apiCalls         \* outbound inference API calls issued so far

vars == << envDevMode, devMode, reqFile, reqBody, pc, requestTimeout, res,
           failedSends, pv, pvArgs, pvResult, duration, maxFrames,
           sortedFrames, frameAnalyses, outcomes, tempFiles, started, inflight,
           overlayCommand, input, output, cache, calls, succeeded, apiCalls >>

reqVars   == << envDevMode, devMode, reqFile, reqBody >>
httpVars  == << pc, requestTimeout, res, failedSends >>
pvVars    == << pv, pvArgs, pvResult, duration, maxFrames, sortedFrames,
                frameAnalyses, outcomes, tempFiles, started, inflight >>
cacheVars == << cache, calls, succeeded, apiCalls >>

(***************************************************************************)
(* Bounds of the model.                                                    *)
(***************************************************************************)
\* Frames (after the first) whose inference outcome is explored in full;
\* later frames of a long video get the first canned answer.
MaxVariedFrames == 2
\* Calls of analyzeFrame each concurrent caller makes.
MaxCalls == 2
\* Longest probed duration, in units of 1/DurUnit seconds.
MaxDuration == 7
\* Units of `duration` per second.
DurUnit == 2

(***************************************************************************)
(* Generic helpers.                                                        *)
(***************************************************************************)
Min(a, b) == IF a < b THEN a ELSE b

\* Math.ceil(n / d) for d > 0 and any integer n.
Ceil(n, d) == -((-n) \div d)

Undefined == [present |-> FALSE]
Str(s) == [present |-> TRUE, value |-> s]

\* String.prototype.startsWith / endsWith on sequences of characters.
startsWith(s, p) == Len(s) >= Len(p) /\ SubSeq(s, 1, Len(p)) = p
endsWith(s, p) == Len(s) >= Len(p) /\ SubSeq(s, Len(s) - Len(p) + 1, Len(s)) = p

\* Long strings (prompts, base64 frames) are sequences of pieces; a piece
\* [s, len] is the first len characters of the text named s.
Piece(s, len) == [s |-> s, len |-> len]

RECURSIVE length(_)
\* String.prototype.length
length(text) == IF text = << >> THEN 0 ELSE text[1].len + length(Tail(text))

RECURSIVE substring(_, _)
\* String.prototype.substring(0, n)
substring(text, n) ==
    IF text = << >> \/ n <= 0 THEN << >>
    ELSE IF text[1].len <= n
    THEN << text[1] >> \o substring(Tail(text), n - text[1].len)
    ELSE << Piece(text[1].s, n) >>

\* String.prototype.includes(word) for a word that is a piece of the model
includes(text, word) == \E k \in 1..Len(text) : text[k] = word

lowerCaseOf == [c \in {"M", "O", "V"} |->
                  CASE c = "M" -> "m" [] c = "O" -> "o" [] c = "V" -> "v"]
\* String.prototype.toLowerCase on a sequence of characters.
toLowerCase(s) == [k \in 1..Len(s) |->
                     IF s[k] \in DOMAIN lowerCaseOf THEN lowerCaseOf[s[k]] ELSE s[k]]

(***************************************************************************)
(* config.js                                                               *)
(***************************************************************************)
\* DEV_MODE: process.env.DEV_MODE === 'true' || true
DEV_MODE(env) == (env = Str("true")) \/ TRUE

(***************************************************************************)
(* Upload validation (multer fileFilter).                                  *)
(***************************************************************************)
\* /\.(mp4|avi|mov|mkv|webm)$/i
allowedExtensions ==
    { <<".", "m", "p", "4">>, <<".", "a", "v", "i">>, <<".", "m", "o", "v">>,
      <<".", "m", "k", "v">>, <<".", "w", "e", "b", "m">> }
hasValidExtension(originalname) ==
    \E e \in allowedExtensions : endsWith(toLowerCase(originalname), e)

\* /^video\//
allowedMimeTypes == <<"v", "i", "d", "e", "o", "/">>
hasValidMimeType(mimetype) == startsWith(mimetype, allowedMimeTypes)

\* fileFilter: cb(null, true) when the extension or the MIME type is allowed.
fileFilter(file) ==
    hasValidExtension(file.originalname) \/ hasValidMimeType(file.mimetype)

(***************************************************************************)
(* Request fields (POST /api/analyze-video handler).                       *)
(***************************************************************************)
NaN == [nan |-> TRUE]
Num(n) == [nan |-> FALSE, val |-> n]

digitValue == [c \in {"0", "1", "2", "3", "4", "5", "6", "7", "8", "9"} |->
                 CASE c = "0" -> 0 [] c = "1" -> 1 [] c = "2" -> 2 [] c = "3" -> 3
                   [] c = "4" -> 4 [] c = "5" -> 5 [] c = "6" -> 6 [] c = "7" -> 7
                   [] c = "8" -> 8 [] c = "9" -> 9]

RECURSIVE leadingDigits(_, _)
\* value of the longest prefix of decimal digits of s, from accumulator acc;
\* NaN when s starts with no digit
leadingDigits(s, acc) ==
    IF s = << >> \/ s[1] \notin DOMAIN digitValue
    THEN acc
    ELSE leadingDigits(Tail(s),
                       Num((IF acc.nan THEN 0 ELSE acc.val) * 10 + digitValue[s[1]]))

\* parseInt(field): optional sign, then the leading decimal digits.
parseInt(field) ==
    IF ~field.present \/ field.value = << >> THEN NaN
    ELSE LET s == field.value
             neg == s[1] = "-"
             body == IF s[1] \in {"-", "+"} THEN Tail(s) ELSE s
             mag == leadingDigits(body, NaN)
         IN  IF mag.nan THEN NaN ELSE Num(IF neg THEN -mag.val ELSE mag.val)

\* const fps = parseInt(req.body.fps) || 1
fpsOf(body) ==
    LET n == parseInt(body.fps) IN IF n.nan \/ n.val = 0 THEN 1 ELSE n.val

defaultPrompt ==
    << Piece("Analyze this sports video and provide feedback on performance, technique, and areas for improvement.", 100) >>
\* const prompt = req.body.prompt || '<default prompt>'
promptOf(body) ==
    IF ~body.prompt.present \/ body.prompt.value = << >>
    THEN defaultPrompt ELSE body.prompt.value

testModeOfMutNever(body) == FALSE
\* const testMode = req.body.testMode === 'true' || req.body.testMode === true
\* (multipart text fields are strings, so only the first disjunct can hold)
testModeOf(body) == body.testMode = Str(<<"t", "r", "u", "e">>)

(***************************************************************************)
(* ClaudeService.analyzeFrameDev: the canned answers.                      *)
(***************************************************************************)
mockResponses ==
  <<
    [ shots |-> <<
      [ timestamp_of_outcome |-> "0:07.5", result |-> "missed",
        shot_type |-> "Jump shot (around free-throw line)",
        total_shots_made_so_far |-> 0, total_shots_missed_so_far |-> 1,
        total_layups_made_so_far |-> 0,
        feedback |->
          <<"You're", "pushing", "that", "ball,", "not", "shooting", "it;", "get", "your", "elbow", "under,", "extend", "fully,", "and", "follow", "through.">> ],
      [ timestamp_of_outcome |-> "0:13.0", result |-> "made",
        shot_type |-> "Three-pointer",
        total_shots_made_so_far |-> 1, total_shots_missed_so_far |-> 1,
        total_layups_made_so_far |-> 0,
        feedback |->
          <<"It", "went", "in,", "but", "watch", "that", "slight", "fade", "keep", "your", "shoulders", "square", "to", "the", "hoop", "through", "the", "whole", "motion.">> ],
      [ timestamp_of_outcome |-> "0:21.5", result |-> "made",
        shot_type |-> "Layup",
        total_shots_made_so_far |-> 2, total_shots_missed_so_far |-> 1,
        total_layups_made_so_far |-> 1,
        feedback |->
          <<"Drive", "that", "knee", "on", "the", "layup,", "protect", "the", "ball", "higher", "with", "your", "off-hand,", "and", "finish", "decisively.">> ],
      [ timestamp_of_outcome |-> "0:28.5", result |-> "made",
        shot_type |-> "Jump shot (free-throw line)",
        total_shots_made_so_far |-> 3, total_shots_missed_so_far |-> 1,
        total_layups_made_so_far |-> 1,
        feedback |->
          <<"Better", "balance,", "but", "that", "shot", "pocket", "and", "release", "point", "must", "be", "identical", "every", "single", "time", "for", "real", "consistency.">> ] >> ],
    [ shots |-> <<
      [ timestamp_of_outcome |-> "0:05.2", result |-> "made",
        shot_type |-> "Layup",
        total_shots_made_so_far |-> 1, total_shots_missed_so_far |-> 0,
        total_layups_made_so_far |-> 1,
        feedback |->
          <<"Excellent", "drive", "to", "the", "basket!", "Keep", "your", "head", "up", "and", "eyes", "on", "the", "rim", "throughout", "the", "motion.">> ],
      [ timestamp_of_outcome |-> "0:12.8", result |-> "missed",
        shot_type |-> "Three-pointer",
        total_shots_made_so_far |-> 1, total_shots_missed_so_far |-> 1,
        total_layups_made_so_far |-> 1,
        feedback |->
          <<"Good", "shot", "selection,", "but", "you're", "rushing.", "Take", "your", "time,", "set", "your", "feet,", "and", "follow", "through", "completely.">> ],
      [ timestamp_of_outcome |-> "0:19.3", result |-> "made",
        shot_type |-> "Jump shot (mid-range)",
        total_shots_made_so_far |-> 2, total_shots_missed_so_far |-> 1,
        total_layups_made_so_far |-> 1,
        feedback |->
          <<"Perfect", "form!", "Your", "elbow", "is", "aligned,", "wrist", "is", "straight,", "and", "follow-through", "is", "consistent.">> ] >> ],
    [ shots |-> <<
      [ timestamp_of_outcome |-> "0:08.1", result |-> "missed",
        shot_type |-> "Free throw",
        total_shots_made_so_far |-> 0, total_shots_missed_so_far |-> 1,
        total_layups_made_so_far |-> 0,
        feedback |->
          <<"Stay", "focused", "on", "the", "rim,", "not", "the", "ball.", "Your", "routine", "looks", "good,", "just", "need", "more", "consistency.">> ],
      [ timestamp_of_outcome |-> "0:15.7", result |-> "made",
        shot_type |-> "Dunk",
        total_shots_made_so_far |-> 1, total_shots_missed_so_far |-> 1,
        total_layups_made_so_far |-> 0,
        feedback |->
          <<"Explosive", "finish!", "Great", "elevation", "and", "power.", "Keep", "working", "on", "your", "vertical", "jump", "for", "more", "dunks.">> ],
      [ timestamp_of_outcome |-> "0:24.2", result |-> "made",
        shot_type |-> "Jump shot (corner three)",
        total_shots_made_so_far |-> 2, total_shots_missed_so_far |-> 1,
        total_layups_made_so_far |-> 0,
        feedback |->
          <<"Excellent", "corner", "three!", "Your", "footwork", "and", "balance", "are", "spot", "on.", "Keep", "practicing", "from", "different", "angles.">> ] >> ],
    [ shots |-> <<
      [ timestamp_of_outcome |-> "0:06.4", result |-> "made",
        shot_type |-> "Hook shot",
        total_shots_made_so_far |-> 1, total_shots_missed_so_far |-> 0,
        total_layups_made_so_far |-> 0,
        feedback |->
          <<"Great", "use", "of", "the", "hook", "shot!", "Keep", "your", "body", "between", "the", "ball", "and", "defender,", "and", "use", "your", "off-hand", "for", "protection.">> ],
      [ timestamp_of_outcome |-> "0:14.9", result |-> "missed",
        shot_type |-> "Jump shot (top of key)",
        total_shots_made_so_far |-> 1, total_shots_missed_so_far |-> 1,
        total_layups_made_so_far |-> 0,
        feedback |->
          <<"You're", "fading", "away", "on", "the", "shot.", "Stay", "square", "to", "the", "basket", "and", "jump", "straight", "up,", "not", "back.">> ],
      [ timestamp_of_outcome |-> "0:22.6", result |-> "made",
        shot_type |-> "Floater",
        total_shots_made_so_far |-> 2, total_shots_missed_so_far |-> 1,
        total_layups_made_so_far |-> 0,
        feedback |->
          <<"Perfect", "floater!", "Great", "touch", "and", "timing.", "This", "is", "a", "valuable", "shot", "to", "have", "in", "your", "arsenal.">> ] >> ],
    [ shots |-> <<
      [ timestamp_of_outcome |-> "0:09.3", result |-> "made",
        shot_type |-> "Pull-up jumper",
        total_shots_made_so_far |-> 1, total_shots_missed_so_far |-> 0,
        total_layups_made_so_far |-> 0,
        feedback |->
          <<"Excellent", "pull-up!", "You", "stopped", "on", "a", "dime", "and", "got", "good", "elevation.", "Keep", "working", "on", "this", "mid-range", "game.">> ],
      [ timestamp_of_outcome |-> "0:17.8", result |-> "missed",
        shot_type |-> "Three-pointer",
        total_shots_made_so_far |-> 1, total_shots_missed_so_far |-> 1,
        total_layups_made_so_far |-> 0,
        feedback |->
          <<"Good", "range,", "but", "you're", "not", "getting", "enough", "arc", "on", "the", "shot.", "Aim", "higher", "and", "follow", "through", "longer.">> ],
      [ timestamp_of_outcome |-> "0:26.1", result |-> "made",
        shot_type |-> "Reverse layup",
        total_shots_made_so_far |-> 2, total_shots_missed_so_far |-> 1,
        total_layups_made_so_far |-> 1,
        feedback |->
          <<"Beautiful", "reverse", "layup!", "Great", "body", "control", "and", "finishing", "with", "the", "off-hand.", "Keep", "practicing", "this", "move.">> ] >> ]
  >>

\* JSON.stringify(value): the text of a JSON document
JSONstringify(value) == [json |-> TRUE, value |-> value]
\* a response text that is not a JSON document
plainText(words) == [json |-> FALSE, text |-> words]
\* JSON.parse(text): the value, or a SyntaxError
JSONparse(text) == IF text.json THEN [ok |-> TRUE, value |-> text.value]
                   ELSE [ok |-> FALSE]

\* analyzeFrameDev returns JSON.stringify(mockResponses[floor(random * 5)])
analyzeFrameDev(r) == JSONstringify(mockResponses[r])

(***************************************************************************)
(* VideoProcessor: pure parts of processVideo.                             *)
(***************************************************************************)
\* the frame cap of processVideo
FrameCap == 30
\* const duration = videoInfo.format.duration || 60, in 1/DurUnit seconds
DefaultDuration == 60

durationOf(probed) == IF probed.present THEN probed.value
                      ELSE DefaultDuration * DurUnit

\* Math.ceil(duration * fps)
wantedFrames(dur, fps) == Ceil(dur * fps, DurUnit)

maxFramesOfMutOffByOne(dur, fps) == Min(wantedFrames(dur, fps), FrameCap + 1)
\* const maxFrames = Math.min(Math.ceil(duration * fps), 30)
maxFramesOf(dur, fps) == Min(wantedFrames(dur, fps), FrameCap)

\* (i / fps).toFixed(2) for i >= 0 and fps > 0: << whole, hundredths >>
toFixed2(i, fps) ==
    LET h == (200 * i + fps) \div (2 * fps) IN << h \div 100, h % 100 >>

\* 'frame-<k>.jpg' as the characters that follow the common prefix 'frame-'
RECURSIVE decimal(_)
decimal(k) == IF k < 10 THEN << k >> ELSE Append(decimal(k \div 10), k % 10)
\* character codes: '.' is 46, the digit d is 48 + d
frameNameCodes(k) == [j \in 1..(Len(decimal(k)) + 1) |->
                        IF j <= Len(decimal(k)) THEN 48 + decimal(k)[j] ELSE 46]

RECURSIVE codesLess(_, _)
\* a < b in the default (code unit) order of Array.prototype.sort
codesLess(a, b) ==
    IF a = << >> THEN b # << >>
    ELSE IF b = << >> THEN FALSE
    ELSE IF a[1] # b[1] THEN a[1] < b[1]
    ELSE codesLess(Tail(a), Tail(b))

\* the number of file names of S that sort before the name of frame x
rankOf(x, S) ==
    Cardinality({y \in S : codesLess(frameNameCodes(y), frameNameCodes(x))})
\* frameFiles.sort(): the frame numbers in the order of their file names
sortNames(S) ==
    [k \in 1..Cardinality(S) |-> CHOOSE x \in S : rankOf(x, S) = k - 1]

\* Array.prototype.slice(0, n) for n >= 0
slice(s, n) == SubSeq(s, 1, Min(n, Len(s)))

\* frameFiles.filter(jpg).sort().slice(0, maxFrames)
sortedFramesOf(frameFiles, cap) == slice(sortNames(frameFiles), cap)

AnalysisFailed == <<"Analysis", "failed", "for", "this", "frame">>
NoSpecificFeedback == <<"No", "specific", "feedback", "available">>
NoShotData == <<"No", "shot", "data", "available">>

firstEntryMutAnalysed(frame, fps) ==
    [frame |-> frame, timestamp |-> toFixed2(0, fps),
     analysis |-> <<"Analysis", "failed", "for", "this", "frame">>]
\* the entry pushed for the first frame
firstEntry(frame, fps) ==
    [frame |-> frame, timestamp |-> toFixed2(0, fps), analysis |-> << >>]

failedEntryMutStampZero(frame, i, fps) ==
    [frame |-> frame, timestamp |-> toFixed2(0, fps), analysis |-> AnalysisFailed]
\* the entry pushed when the inference call was rejected or timed out
failedEntry(frame, i, fps) ==
    [frame |-> frame, timestamp |-> toFixed2(i, fps), analysis |-> AnalysisFailed]

analysedEntryMutFirstShot(frame, i, fps, dev, analysis) ==
    LET ts == toFixed2(i, fps) IN
    IF dev
    THEN LET parsed == JSONparse(analysis) IN
         IF ~parsed.ok
         THEN [frame |-> frame, timestamp |-> ts, analysis |-> analysis.text]
         ELSE IF "shots" \in DOMAIN parsed.value /\ Len(parsed.value.shots) > 0
         THEN LET relevantShot == parsed.value.shots[1] IN
              [frame |-> frame, timestamp |-> ts,
               analysis |-> IF relevantShot.feedback = << >>
                            THEN NoSpecificFeedback ELSE relevantShot.feedback,
               structuredData |-> parsed.value]
         ELSE [frame |-> frame, timestamp |-> ts, analysis |-> NoShotData]
    ELSE [frame |-> frame, timestamp |-> ts, analysis |-> analysis.text]
\* the entry pushed for frame i when the inference call returned `analysis`
analysedEntry(frame, i, fps, dev, analysis) ==
    LET ts == toFixed2(i, fps) IN
    IF dev
    THEN LET parsed == JSONparse(analysis) IN
         IF ~parsed.ok
         THEN [frame |-> frame, timestamp |-> ts, analysis |-> analysis.text]
         ELSE IF "shots" \in DOMAIN parsed.value /\ Len(parsed.value.shots) > 0
         THEN LET relevantShot == parsed.value.shots[Len(parsed.value.shots)] IN
              [frame |-> frame, timestamp |-> ts,
               analysis |-> IF relevantShot.feedback = << >>
                            THEN NoSpecificFeedback ELSE relevantShot.feedback,
               structuredData |-> parsed.value]
         ELSE [frame |-> frame, timestamp |-> ts, analysis |-> NoShotData]
    ELSE [frame |-> frame, timestamp |-> ts, analysis |-> analysis.text]

(***************************************************************************)
(* VideoProcessor.summarizeFeedback                                        *)
(***************************************************************************)
\* words of the model's texts in which /shot/i, /made/i, /missed/i match
matchesOf(keyword) ==
    CASE keyword = "shot"   -> {"shot", "shot.", "shot!", "shots"}
      [] keyword = "made"   -> {"made", "Made"}
      [] keyword = "missed" -> {"missed", "Missed"}

\* shot types whose lower-cased name includes 'layup'
layupTypes == {"Layup", "Reverse layup"}

RECURSIVE countWords(_, _)
\* (text.match(/keyword/gi) || []).length
countWords(text, keyword) ==
    IF text = << >> THEN 0
    ELSE (IF text[1] \in matchesOf(keyword) THEN 1 ELSE 0)
         + countWords(Tail(text), keyword)

RECURSIVE joinAnalyses(_)
\* frameAnalyses.map(f => f.analysis).join(' ')
joinAnalyses(fa) ==
    IF fa = << >> THEN << >> ELSE fa[1].analysis \o joinAnalyses(Tail(fa))

RECURSIVE allShots(_)
\* the shot records of all entries that carry structuredData, in order
allShots(fa) ==
    IF fa = << >> THEN << >>
    ELSE (IF "structuredData" \in DOMAIN fa[1] /\ "shots" \in DOMAIN fa[1].structuredData
          THEN fa[1].structuredData.shots ELSE << >>)
         \o allShots(Tail(fa))

isMadeMutAnyResult(shot) == TRUE
isMade(shot) == shot.result = "made"
isMissed(shot) == shot.result = "missed"
isLayupMade(shot) == shot.result = "made" /\ shot.shot_type \in layupTypes

\* how many of the shots are counted under `what`
countShots(shots, what) ==
    Cardinality({k \in 1..Len(shots) :
                   CASE what = "made" -> isMade(shots[k])
                     [] what = "missed" -> isMissed(shots[k])
                     [] what = "layup" -> isLayupMade(shots[k])})

RECURSIVE uniqueTypes(_, _)
\* [...new Set(shotTypes)]: first occurrences, in order
uniqueTypes(shots, seen) ==
    IF shots = << >> THEN << >>
    ELSE IF shots[1].shot_type \in seen THEN uniqueTypes(Tail(shots), seen)
    ELSE << shots[1].shot_type >>
         \o uniqueTypes(Tail(shots), seen \cup {shots[1].shot_type})

\* total > 0 ? (part / total * 100).toFixed(1) + '%' : 'N/A'
\* the percentage is kept in tenths of a percent
accuracyOf(part, total) ==
    IF total > 0 THEN [na |-> FALSE, tenths |-> (2000 * part + total) \div (2 * total)]
    ELSE [na |-> TRUE]

structuredSummary(fa) ==
    LET shots == allShots(fa)
        totalShotsMade == countShots(shots, "made")
        totalShotsMissed == countShots(shots, "missed")
    IN  [ totalFrames |-> Len(fa),
          totalShots |-> totalShotsMade + totalShotsMissed,
          totalShotsMade |-> totalShotsMade,
          totalShotsMissed |-> totalShotsMissed,
          totalLayupsMade |-> countShots(shots, "layup"),
          accuracy |-> accuracyOf(totalShotsMade, totalShotsMade + totalShotsMissed),
          shotTypes |-> uniqueTypes(shots, {}),
          hasStructuredData |-> TRUE ]

keywordSummary(fa) ==
    LET allAnalysis == joinAnalyses(fa)
        shotCount == countWords(allAnalysis, "shot")
        madeCount == countWords(allAnalysis, "made")
    IN  [ totalFrames |-> Len(fa),
          shotCount |-> shotCount,
          madeCount |-> madeCount,
          missedCount |-> countWords(allAnalysis, "missed"),
          accuracy |-> accuracyOf(madeCount, shotCount),
          hasStructuredData |-> FALSE ]

summarizeFeedback(fa) ==
    IF \E k \in 1..Len(fa) : "structuredData" \in DOMAIN fa[k]
    THEN structuredSummary(fa)
    ELSE keywordSummary(fa)

(***************************************************************************)
(* VideoProcessor.createVideoWithOverlay and createStatsText               *)
(***************************************************************************)
\* text.length of a text given by its words, single spaces between them
charLength(words) ==
    LET upTo[k \in 0..Len(words)] ==
          IF k = 0 THEN 0
          ELSE upTo[k - 1] + Len(words[k]) + (IF k > 1 THEN 1 ELSE 0)
    IN  upTo[Len(words)]

\* toLowerCase of the capitalised words that matter to the overlay filter
wordToLowerCase(w) ==
    CASE w = "Analysis" -> "analysis" [] w = "Unable" -> "unable" [] OTHER -> w

\* text.toLowerCase().includes(phrase), the phrase given by its words
includesPhrase(text, phrase) ==
    \E k \in 1..(Len(text) - Len(phrase) + 1) :
       \A j \in 1..Len(phrase) : wordToLowerCase(text[k + j - 1]) = phrase[j]

\* parseFloat(analysis.timestamp), in hundredths of a second
parseFloat(timestamp) == 100 * timestamp[1] + timestamp[2]

isValidMutAnyTime(analysis) ==
    /\ charLength(analysis.analysis) > 20
    /\ ~includesPhrase(analysis.analysis, <<"analysis", "failed">>)
    /\ ~includesPhrase(analysis.analysis, <<"unable", "to", "analyze">>)
\* the filter predicate of meaningfulAnalyses: text.length > 20 and
\* timestamp > 0.5 (in hundredths of a second), neither phrase in the text
isValid(analysis) ==
    /\ charLength(analysis.analysis) > 20
    /\ parseFloat(analysis.timestamp) > 50
    /\ ~includesPhrase(analysis.analysis, <<"analysis", "failed">>)
    /\ ~includesPhrase(analysis.analysis, <<"unable", "to", "analyze">>)

\* frameAnalyses.filter(isValid)
meaningfulAnalysesOf(fa) == SelectSeq(fa, isValid)

\* shot types whose lower-cased name includes 'three' or '3'
threeTypes == {"Three-pointer", "Jump shot (corner three)"}
isThreeMade(shot) == shot.result = "made" /\ shot.shot_type \in threeTypes

\* words of the model's texts that include made|good|great|nice|perfect, and
\* missed|miss|off|wrong, whatever their case
madeWords == {"made", "Made", "Good", "good", "good,", "Great", "great",
              "Nice", "nice", "Perfect", "perfect"}
missedWords == {"missed", "Missed", "miss", "off", "off-hand", "off-hand,",
                "off-hand.", "wrong"}
hasWord(text, words) == \E k \in 1..Len(text) : text[k] \in words

\* total > 0 ? Math.round(part / total * 100) : 0
roundedPercent(part, total) ==
    IF total > 0 THEN (200 * part + total) \div (2 * total) ELSE 0

\* createStatsText(analyses): the numbers written into the stats text
createStatsText(analyses) ==
    IF \E k \in 1..Len(analyses) : "structuredData" \in DOMAIN analyses[k]
    THEN LET shots == allShots(analyses)
             totalShotsMade == countShots(shots, "made")
             totalShotsMissed == countShots(shots, "missed")
         IN  [ made |-> totalShotsMade,
               missed |-> totalShotsMissed,
               accuracy |-> roundedPercent(totalShotsMade,
                                           totalShotsMade + totalShotsMissed),
               layups |-> countShots(shots, "layup"),
               threePointers |->
                 Cardinality({k \in 1..Len(shots) : isThreeMade(shots[k])}) ]
    ELSE LET madeCount == Cardinality({k \in 1..Len(analyses) :
                                         hasWord(analyses[k].analysis, madeWords)})
             missedCount == Cardinality({k \in 1..Len(analyses) :
                                           hasWord(analyses[k].analysis, missedWords)})
         IN  [ made |-> madeCount,
               missed |-> missedCount,
               accuracy |-> roundedPercent(madeCount, madeCount + missedCount) ]

\* the drawtext clause that shows the statistics all the time
statsOverlay(analyses) ==
    [filter |-> "drawtext", stats |-> createStatsText(analyses)]
\* the drawtext clause of one analysis, shown from its timestamp for 3 s; its
\* text is escapeText(analysis.analysis) of the named entry
dynamicOverlay(analysis) ==
    [filter |-> "drawtext", entry |-> analysis.frame,
     startTime |-> parseFloat(analysis.timestamp),
     endTime |-> parseFloat(analysis.timestamp) + 300]

\* overlayFilters: nothing when no analysis is meaningful, otherwise the
\* stats clause followed by one clause per meaningful analysis
overlayFiltersOf(fa) ==
    LET meaningfulAnalyses == meaningfulAnalysesOf(fa) IN
    IF meaningfulAnalyses = << >> THEN << >>
    ELSE << statsOverlay(meaningfulAnalyses) >>
         \o [k \in 1..Len(meaningfulAnalyses) |-> dynamicOverlay(meaningfulAnalyses[k])]

\* JSON values of the `feedback` field of a processVideo result
JsonObject(rec) == [type |-> "object", value |-> rec]
JsonString(str) == [type |-> "string", value |-> str]

(***************************************************************************)
(* ClaudeService.createCacheKey and the cache.                             *)
(***************************************************************************)
\* characters of the frame and of the prompt that enter the key
FrameKeyChars == 1000
PromptKeyChars == 200

\* md5(frameBase64.substring(0, 1000) + prompt.substring(0, 200)); the digest
\* is taken to be collision free
createCacheKey(frameBase64, prompt) ==
    [md5 |-> substring(frameBase64, FrameKeyChars) \o substring(prompt, PromptKeyChars)]

\* fs.pathExists(cacheFile)
pathExists(c, key) == key \in DOMAIN c

writeJsonMutNoop(c, key, prompt, response) == c
writeJsonMutEvict(c, key, prompt, response) ==
    [k \in {key} |-> [prompt |-> prompt, response |-> response]]
\* fs.writeJson(cacheFile, {prompt, response, timestamp})
writeJson(c, key, prompt, response) ==
    [k \in DOMAIN c \cup {key} |->
       IF k = key THEN [prompt |-> prompt, response |-> response] ELSE c[k]]

\* `${prompt}\n\nAnalyze this specific frame (${i + 1}/${n}) and provide ...`
framePromptOf(prompt, i, n) ==
    prompt \o << Piece("\n\nAnalyze this specific frame (", 31),
                 Piece(ToString(<< i + 1, n >>), Len(decimal(i + 1)) + 1 + Len(decimal(n))),
                 Piece(") and provide feedback that can be overlaid on the video.", 57) >>

(***************************************************************************)
(* Inputs of one request.                                                  *)
(***************************************************************************)
NoFile == [present |-> FALSE]
File(originalname, mimetype) ==
    [present |-> TRUE, originalname |-> originalname, mimetype |-> mimetype]

MovUpper == <<"a", ".", "M", "O", "V">>
NoDot == <<"a", "m", "p", "4">>
VideoMp4 == <<"v", "i", "d", "e", "o", "/", "m", "p", "4">>
TextPlain == <<"t", "e", "x", "t", "/", "p", "l", "a", "i", "n">>
Files == { NoFile, File(MovUpper, TextPlain), File(NoDot, VideoMp4),
           File(NoDot, TextPlain) }

NoOverlayTest == Piece("NO_OVERLAY_TEST", 15)
PromptFields == { Undefined, Str(<< Piece("Run the ", 8), NoOverlayTest >>) }
FpsFields == { Undefined, Str(<<"9">>), Str(<<"0", ".", "5">>), Str(<<"-", "1">>) }
TestModeFields == { Undefined, Str(<<"t", "r", "u", "e">>) }
Bodies == [prompt : PromptFields, fps : FpsFields, testMode : TestModeFields]
EnvDevModes == { Undefined, Str("false") }

\* durations the probe may report, in 1/DurUnit seconds
Durations == {1, 3, MaxDuration}

(***************************************************************************)
(* Values of the request state.                                            *)
(***************************************************************************)
NoResponse == [sent |-> FALSE]
Response(status, body) == [sent |-> TRUE, status |-> status, body |-> body]

Pending == [state |-> "pending"]
Resolved(value) == [state |-> "resolved", value |-> value]
Rejected(message) == [state |-> "rejected", message |-> message]

NoArgs == [called |-> FALSE]
NoCommand == [run |-> FALSE]

InitRequest ==
    /\ reqFile \in Files
    /\ reqBody \in Bodies
    /\ pc = "upload"
    /\ requestTimeout = "unset"
    /\ res = NoResponse
    /\ failedSends = << >>
    /\ pv = "idle"
    /\ pvArgs = NoArgs
    /\ pvResult = Pending
    /\ duration = Undefined
    /\ maxFrames = 0
    /\ sortedFrames = << >>
    /\ frameAnalyses = << >>
    /\ outcomes = << >>
    /\ tempFiles = {}
    /\ started = << >>
    /\ inflight = {}
    /\ overlayCommand = NoCommand

\* no function is being followed on its own
InitFn ==
    /\ input = Undefined
    /\ output = Undefined

InitCache ==
    /\ cache = << >>
    /\ calls = << >>
    /\ succeeded = {}
    /\ apiCalls = 0

\* the server as shipped: config.DEV_MODE computed from the environment
Init ==
    /\ envDevMode \in EnvDevModes
    /\ devMode = DEV_MODE(envDevMode)
    /\ InitRequest
    /\ InitFn
    /\ InitCache

(***************************************************************************)
(* The route POST /api/analyze-video.                                      *)
(***************************************************************************)
\* res.status(status).json(body): throws once the headers have been sent
Send(status, body) ==
    IF res.sent
    THEN /\ failedSends' = Append(failedSends, status)
         /\ UNCHANGED res
    ELSE /\ res' = Response(status, body)
         /\ UNCHANGED failedSends

clearTimeoutMutNoop(t) == t
\* clearTimeout(requestTimeout)
clearTimeout(t) == IF t = "armed" THEN "cleared" ELSE t

\* upload.single('video'): the file filter passes the request on to the
\* handler, or passes its error to the error handling middleware
MulterUpload ==
    /\ pc = "upload"
    /\ pc' = IF reqFile.present /\ ~fileFilter(reqFile)
             THEN "errorMiddleware" ELSE "handler"
    /\ UNCHANGED << input, output, overlayCommand, reqVars, requestTimeout, res, failedSends, pvVars, cacheVars >>

errorStatus == 500
\* app.use((error, req, res, next) => res.status(500).json({error: message}))
ErrorMiddleware ==
    /\ pc = "errorMiddleware"
    /\ Send(errorStatus, [error |-> "Only video files are allowed!"])
    /\ pc' = "done"
    /\ UNCHANGED << input, output, overlayCommand, reqVars, requestTimeout, pvVars, cacheVars >>

missingFileMutNever(file) == FALSE
\* if (!req.file)
missingFile(file) == ~file.present

\* the handler up to its first await: arm the timer, answer 400 when there
\* is no file, otherwise read the fields and call processVideo
HandlerStart ==
    /\ pc = "handler"
    /\ IF missingFile(reqFile)
       THEN /\ requestTimeout' = clearTimeout("armed")
            /\ Send(400, [error |-> "No video file uploaded"])
            /\ pc' = "done"
            /\ UNCHANGED << pv, pvArgs >>
       ELSE /\ requestTimeout' = "armed"
            /\ pc' = "processing"
            /\ pv' = "start"
            /\ pvArgs' = [called |-> TRUE, prompt |-> promptOf(reqBody),
                          fps |-> fpsOf(reqBody), testMode |-> testModeOf(reqBody)]
            /\ UNCHANGED << res, failedSends >>
    /\ UNCHANGED << input, output, overlayCommand, reqVars, pvResult, duration, maxFrames, sortedFrames,
                    frameAnalyses, outcomes, tempFiles, started, inflight,
                    cacheVars >>

\* the timer callback: 408 unless the headers were sent
RequestTimeout ==
    /\ requestTimeout = "armed"
    /\ requestTimeout' = "fired"
    /\ IF ~res.sent
       THEN res' = Response(408, [error |-> "Request timeout - processing took too long"])
       ELSE UNCHANGED res
    /\ UNCHANGED << input, output, overlayCommand, reqVars, pc, failedSends, pvVars, cacheVars >>

\* http://localhost:<PORT>/<processedVideoPath>
processedVideoUrl(path) == [host |-> "http://localhost:PORT/", path |-> path]

\* processVideo resolved: clearTimeout, then res.json(...); when the headers
\* were already sent res.json throws and the catch block sends again
HandlerResolve ==
    /\ pc = "processing"
    /\ pvResult.state = "resolved"
    /\ requestTimeout' = clearTimeout(requestTimeout)
    /\ IF res.sent
       THEN /\ failedSends' = failedSends \o << 200, 500 >>
            /\ UNCHANGED res
       ELSE /\ res' = Response(200,
                        [success |-> TRUE,
                         originalVideo |-> reqFile.originalname,
                         processedVideo |-> processedVideoUrl(pvResult.value.processedVideoPath),
                         analysis |-> pvResult.value.analysis,
                         feedback |-> pvResult.value.feedback])
            /\ UNCHANGED failedSends
    /\ pc' = "done"
    /\ UNCHANGED << input, output, overlayCommand, reqVars, pvVars, cacheVars >>

errorBodyMutGeneric(message) ==
    [error |-> "Error processing video", details |-> "Error processing video"]
\* { error: 'Error processing video', details: error.message }
errorBody(message) == [error |-> "Error processing video", details |-> message]

\* processVideo rejected: clearTimeout, then res.status(500).json(...)
HandlerCatch ==
    /\ pc = "processing"
    /\ pvResult.state = "rejected"
    /\ requestTimeout' = clearTimeout(requestTimeout)
    /\ Send(500, errorBody(pvResult.message))
    /\ pc' = "done"
    /\ UNCHANGED << input, output, overlayCommand, reqVars, pvVars, cacheVars >>

(***************************************************************************)
(* VideoProcessor.processVideo, one action per awaited step.               *)
(***************************************************************************)
Settle(result) ==
    /\ pvResult' = result
    /\ pv' = "settled"

\* an awaited promise that has no timer of its own and whose external process
\* never calls back: processVideo stays suspended at that await
Stall ==
    /\ pv' = "stalled"
    /\ UNCHANGED pvResult

\* an entry of the log of external operations processVideo has started
Started(step) == [step |-> step]
InferenceCall(i, client, timeoutMs) ==
    [step |-> "inference", frame |-> i, client |-> client, timeoutMs |-> timeoutMs]

\* path.join(config.PROCESSED_DIR, `<prefix><uuid>.mp4`)
outputPath(prefix) == [dir |-> "processed", prefix |-> prefix]

\* testMode: copy the upload and return at once
PVTestCopy ==
    /\ pv = "start"
    /\ pvArgs.testMode
    /\ \E copied \in BOOLEAN :
         Settle(IF copied
                THEN Resolved([processedVideoPath |-> outputPath("original-"),
                               analysis |-> << >>,
                               feedback |-> JsonString(
                                 "Test mode - original video returned without processing")])
                ELSE Rejected("copy failed"))
    /\ UNCHANGED << input, output, overlayCommand, reqVars, httpVars, pvArgs, duration, maxFrames, sortedFrames,
                    frameAnalyses, outcomes, tempFiles, started, inflight, cacheVars >>

\* prompt.includes('NO_OVERLAY_TEST'): createVideoWithNoOverlays and return
PVNoOverlay ==
    /\ pv = "start"
    /\ ~pvArgs.testMode
    /\ includes(pvArgs.prompt, NoOverlayTest)
    /\ started' = Append(started, Started("createVideoWithNoOverlays"))
    /\ \/ \E encoded \in BOOLEAN :
            Settle(IF encoded
                   THEN Resolved([processedVideoPath |-> outputPath("no-overlay-test-"),
                                  analysis |-> << >>,
                                  feedback |-> JsonString(
                                    "No overlay test - video created with absolutely no overlays")])
                   ELSE Rejected("ffmpeg failed (no overlays)"))
       \/ Stall
    /\ UNCHANGED << input, output, overlayCommand, reqVars, httpVars, pvArgs, duration, maxFrames, sortedFrames,
                    frameAnalyses, outcomes, tempFiles, inflight, cacheVars >>

\* getVideoInfo, then maxFrames and fs.ensureDir(framesDir)
PVProbe ==
    /\ pv = "start"
    /\ ~pvArgs.testMode
    /\ ~includes(pvArgs.prompt, NoOverlayTest)
    /\ started' = Append(started, Started("getVideoInfo"))
    /\ \/ \E probed \in {Undefined} \cup {Str(d) : d \in Durations} :
            /\ duration' = probed
            /\ maxFrames' = maxFramesOf(durationOf(probed), pvArgs.fps)
            /\ tempFiles' = tempFiles \cup {"framesDir"}
            /\ pv' = "extract"
            /\ UNCHANGED pvResult
       \/ /\ Settle(Rejected("ffprobe failed"))
          /\ UNCHANGED << duration, maxFrames, tempFiles >>
       \/ /\ Stall
          /\ UNCHANGED << duration, maxFrames, tempFiles >>
    /\ UNCHANGED << input, output, overlayCommand, reqVars, httpVars, pvArgs, sortedFrames, frameAnalyses,
                    outcomes, inflight, cacheVars >>

\* the frame files the transcoder leaves when it ends normally: `count`
\* screenshots named frame-1.jpg ... frame-<count>.jpg
screenshots(count) == 1..count

PVExtractMutRetry ==
    /\ pv = "extract"
    /\ started' = Append(started, Started("extractFrames"))
    /\ \/ /\ maxFrames >= 1
          /\ pvArgs.fps >= 1
          /\ sortedFrames' = sortedFramesOf(screenshots(maxFrames), maxFrames)
          /\ pv' = "loop"
          /\ UNCHANGED pvResult
       \/ UNCHANGED << pv, pvResult, sortedFrames >>
    /\ UNCHANGED << input, output, overlayCommand, reqVars, httpVars, pvArgs, duration, maxFrames, frameAnalyses,
                    outcomes, tempFiles, inflight, cacheVars >>
\* extractFrames (end, error, or its own 60 s timer), then readdir/sort/slice
PVExtract ==
    /\ pv = "extract"
    /\ started' = Append(started, Started("extractFrames"))
    /\ \/ /\ maxFrames >= 1
          /\ pvArgs.fps >= 1
          /\ sortedFrames' = sortedFramesOf(screenshots(maxFrames), maxFrames)
          /\ pv' = "loop"
          /\ UNCHANGED pvResult
       \/ /\ \E message \in {"ffmpeg exited with code 1", "Frame extraction timed out"} :
               Settle(Rejected(message))
          /\ UNCHANGED sortedFrames
    /\ UNCHANGED << input, output, overlayCommand, reqVars, httpVars, pvArgs, duration, maxFrames, frameAnalyses,
                    outcomes, tempFiles, inflight, cacheVars >>

\* base64 contents a frame file may have, and texts the inference API may give
FrameContents == { << Piece("jpegA", 1000), Piece("restA", 500) >>,
                   << Piece("jpegA", 1000), Piece("restC", 500) >>,
                   << Piece("jpegB", 1000), Piece("restB", 500) >> }
ApiTexts == { <<"Nice", "shot">>, <<"made", "made", "shot", "missed">> }
\* contents of the frame files of the request that is followed, and the text
\* of an answer that arrives after its call was given up
RequestFrameContents == { << Piece("jpegA", 1000), Piece("restA", 500) >> }
LateTexts == { <<"Nice", "shot">> }

\* analyzeFrameDev answers after its setTimeout(resolve, 500)
MockDelayMs == 500
\* withTimeout(analyzeFrameDev(...), 10000)
DevTimeoutMs == 10000
\* withTimeout(analyzeFrame(...), 30000)
ApiTimeoutMs == 30000

\* how the inference call of frame i (i >= 1) may end.  The mock arms its
\* 500 ms timer before withTimeout arms the 10 s one, so the race is lost by
\* the mock only if its delay reaches the timeout
devOutcomes(i) ==
    IF i <= MaxVariedFrames
    THEN {[kind |-> "fulfilled", r |-> r] : r \in 1..Len(mockResponses)}
         \cup (IF MockDelayMs >= DevTimeoutMs THEN {[kind |-> "timeout"]} ELSE {})
    ELSE {[kind |-> "fulfilled", r |-> 1]}
\* the API call has no time limit of its own (axios.post without `timeout`)
apiOutcomes(i) ==
    IF i <= MaxVariedFrames
    THEN {[kind |-> "fulfilled", text |-> t] : t \in ApiTexts}
         \cup {[kind |-> "rejected"], [kind |-> "timeout"]}
    ELSE {[kind |-> "rejected"]}

catchFrameMutEmpty(frame, i, fps) ==
    [frame |-> frame, timestamp |-> toFixed2(i, fps), analysis |-> << >>]
\* the catch block of the per-frame try
catchFrame(frame, i, fps) == failedEntry(frame, i, fps)

\* the call the loop is awaiting, and the calls it has given up on
awaited == {c \in inflight : ~c.abandoned}
abandoned == {c \in inflight : c.abandoned}

\* Promise.race settles for the loop; the promise that lost the race against
\* the timer is not cancelled
afterRace(call, kind) ==
    IF kind = "timeout"
    THEN (inflight \ {call}) \cup {[call EXCEPT !.abandoned = TRUE]}
    ELSE inflight \ {call}

\* one iteration of the per-frame loop up to its await: the first frame is
\* pushed without a call, for every other frame the inference call is started
\* (analyzeFrame looks its key up in the cache before it posts the frame)
PVFrame ==
    /\ pv = "loop"
    /\ Len(frameAnalyses) < Len(sortedFrames)
    /\ LET i == Len(frameAnalyses)
           n == Len(sortedFrames)
           frame == sortedFrames[i + 1]
           fps == pvArgs.fps
       IN  IF i = 0
           THEN /\ frameAnalyses' = Append(frameAnalyses, firstEntry(frame, fps))
                /\ outcomes' = Append(outcomes, "skipped")
                /\ UNCHANGED << pv, started, inflight, cacheVars >>
           ELSE /\ pv' = "await"
                /\ UNCHANGED << frameAnalyses, outcomes >>
                /\ IF devMode
                   THEN /\ started' = Append(started,
                               InferenceCall(i, "analyzeFrameDev", DevTimeoutMs))
                        /\ inflight' = inflight \cup
                               {[frame |-> i, abandoned |-> FALSE]}
                        /\ UNCHANGED cacheVars
                   ELSE \E frameBase64 \in RequestFrameContents :
                          LET framePrompt == framePromptOf(pvArgs.prompt, i, n)
                              key == createCacheKey(frameBase64, framePrompt)
                              posted == ~pathExists(cache, key)
                          IN  /\ started' = Append(started,
                                     InferenceCall(i, "analyzeFrame", ApiTimeoutMs))
                              /\ inflight' = inflight \cup
                                     {[frame |-> i, abandoned |-> FALSE, key |-> key,
                                       prompt |-> framePrompt, posted |-> posted]}
                              /\ apiCalls' = IF posted THEN apiCalls + 1 ELSE apiCalls
                              /\ UNCHANGED << cache, calls, succeeded >>
    /\ UNCHANGED << input, output, overlayCommand, reqVars, httpVars, pvArgs, pvResult, duration, maxFrames,
                    sortedFrames, tempFiles >>

\* the rest of the iteration: the race of the call against its timer has
\* settled and one entry is pushed
PVFrameSettled ==
    /\ pv = "await"
    /\ \E call \in awaited :
         LET i == call.frame
             frame == sortedFrames[i + 1]
             fps == pvArgs.fps
         IN  IF devMode
             THEN \E o \in devOutcomes(i) :
                    /\ frameAnalyses' = Append(frameAnalyses,
                          IF o.kind = "fulfilled"
                          THEN analysedEntry(frame, i, fps, TRUE, analyzeFrameDev(o.r))
                          ELSE catchFrame(frame, i, fps))
                    /\ outcomes' = Append(outcomes, o.kind)
                    /\ inflight' = afterRace(call, o.kind)
                    /\ UNCHANGED cacheVars
             ELSE IF ~call.posted
             THEN /\ frameAnalyses' = Append(frameAnalyses,
                        analysedEntry(frame, i, fps, FALSE,
                                      plainText(cache[call.key].response)))
                  /\ outcomes' = Append(outcomes, "cached")
                  /\ inflight' = afterRace(call, "cached")
                  /\ UNCHANGED cacheVars
             ELSE \E o \in apiOutcomes(i) :
                    /\ frameAnalyses' = Append(frameAnalyses,
                          IF o.kind = "fulfilled"
                          THEN analysedEntry(frame, i, fps, FALSE, plainText(o.text))
                          ELSE catchFrame(frame, i, fps))
                    /\ outcomes' = Append(outcomes, o.kind)
                    /\ inflight' = afterRace(call, o.kind)
                    /\ cache' = IF o.kind = "fulfilled"
                                THEN writeJson(cache, call.key, call.prompt, o.text)
                                ELSE cache
                    /\ UNCHANGED << calls, succeeded, apiCalls >>
    /\ pv' = "loop"
    /\ UNCHANGED << input, output, overlayCommand, reqVars, httpVars, pvArgs, pvResult, duration, maxFrames,
                    sortedFrames, tempFiles, started >>

\* a call the loop gave up on settles later: analyzeFrame still caches the
\* answer it gets, and nobody reads its result
AbandonedCallSettles ==
    /\ \E call \in abandoned :
         /\ inflight' = inflight \ {call}
         /\ \/ \E text \in LateTexts :
                 cache' = writeJson(cache, call.key, call.prompt, text)
            \/ UNCHANGED cache
    /\ UNCHANGED << input, output, overlayCommand, reqVars, httpVars, pv, pvArgs, pvResult, duration, maxFrames,
                    sortedFrames, frameAnalyses, outcomes, tempFiles, started,
                    calls, succeeded, apiCalls >>

\* createCleanVideo(videoPath, cleanVideoPath)
PVClean ==
    /\ pv = "loop"
    /\ Len(frameAnalyses) = Len(sortedFrames)
    /\ started' = Append(started, Started("createCleanVideo"))
    /\ \/ /\ tempFiles' = tempFiles \cup {"clean"}
          /\ pv' = "overlay"
          /\ UNCHANGED pvResult
       \/ /\ Settle(Rejected("ffmpeg failed (clean video)"))
          /\ UNCHANGED tempFiles
       \/ /\ Stall
          /\ UNCHANGED tempFiles
    /\ UNCHANGED << input, output, overlayCommand, reqVars, httpVars, pvArgs, duration, maxFrames, sortedFrames,
                    frameAnalyses, outcomes, inflight, cacheVars >>

\* createVideoWithOverlay, fs.remove(cleanVideoPath), fs.remove(framesDir),
\* return {processedVideoPath, analysis, feedback}
PVOverlay ==
    /\ pv = "overlay"
    /\ started' = Append(started, Started("createVideoWithOverlay"))
    /\ overlayCommand' = [run |-> TRUE, filters |-> overlayFiltersOf(frameAnalyses)]
    /\ \/ /\ tempFiles' = tempFiles \ {"clean", "framesDir"}
          /\ Settle(Resolved([processedVideoPath |-> outputPath("processed-"),
                              analysis |-> frameAnalyses,
                              feedback |-> JsonObject(summarizeFeedback(frameAnalyses))]))
       \/ /\ Settle(Rejected("ffmpeg failed (overlay)"))
          /\ UNCHANGED tempFiles
       \/ /\ Stall
          /\ UNCHANGED tempFiles
    /\ UNCHANGED << input, output, reqVars, httpVars, pvArgs, duration, maxFrames, sortedFrames,
                    frameAnalyses, outcomes, inflight, cacheVars >>

Next ==
    \/ MulterUpload
    \/ ErrorMiddleware
    \/ HandlerStart
    \/ RequestTimeout
    \/ HandlerResolve
    \/ HandlerCatch
    \/ PVTestCopy
    \/ PVNoOverlay
    \/ PVProbe
    \/ PVExtract
    \/ PVFrame
    \/ PVFrameSettled
    \/ PVClean
    \/ PVOverlay

Spec == Init /\ [][Next]_vars

\* the server with either configuration: DEV_MODE as shipped, or line 10 of
\* config.js set to false as its comment tells ("Set to false to use real
\* Claude API")
InitAnyConfig ==
    /\ envDevMode = Undefined
    /\ devMode \in {DEV_MODE(envDevMode), FALSE}
    /\ InitRequest
    /\ InitFn
    /\ InitCache

\* with the real client a call can lose the race against its 30 s timer
NextAnyConfig == Next \/ AbandonedCallSettles

SpecAnyConfig == InitAnyConfig /\ [][NextAnyConfig]_vars

\* the server as shipped, serving a request that leaves the frame rate at its
\* default; every callback that is ready to run eventually runs
InitFair ==
    /\ Init
    /\ envDevMode = Undefined
    /\ reqBody.fps = Undefined

SpecFair == InitFair /\ [][Next]_vars /\ WF_vars(Next)

(***************************************************************************)
(* VideoProcessor.escapeText, followed on its own: texts are sequences of  *)
(* characters, the action applies the function to one text.                *)
(***************************************************************************)
\* text.replace(/c/g, '\\c'): a backslash is put before every c.  end[k] is
\* the length of the result for the first k characters (\o << >> makes a
\* function a tuple, so that it is computed once)
escapeChar(text, c) ==
    LET n == Len(text)
        end == [k \in 1..n |-> k + Cardinality({i \in 1..k : text[i] = c})] \o << >>
        total == IF n = 0 THEN 0 ELSE end[n]
    IN  [j \in 1..total |->
           LET k == CHOOSE k \in 1..n : j <= end[k] /\ (k = 1 \/ end[k - 1] < j)
           IN  IF text[k] = c /\ j < end[k] THEN "\\" ELSE text[k]] \o << >>

\* text.replace(/c/g, ' ')
replaceBySpace(text, c) ==
    [k \in 1..Len(text) |-> IF text[k] = c THEN " " ELSE text[k]] \o << >>

\* the characters of the texts that \s matches
whitespace == {" ", "\n", "\r", "\t"}

\* text.replace(/\s+/g, ' '): every run of whitespace becomes one space.
\* `kept` are the characters that do not continue a run
collapseWhitespace(text) ==
    LET n == Len(text)
        kept == {k \in 1..n : text[k] \notin whitespace
                              \/ k = 1 \/ text[k - 1] \notin whitespace}
        end == [k \in 1..n |-> Cardinality({i \in kept : i <= k})] \o << >>
    IN  [j \in 1..Cardinality(kept) |->
           LET k == CHOOSE k \in kept : end[k] = j
           IN  IF text[k] \in whitespace THEN " " ELSE text[k]] \o << >>

\* text.trim()
trim(text) ==
    LET kept == {k \in 1..Len(text) : text[k] \notin whitespace} IN
    IF kept = {} THEN << >>
    ELSE SubSeq(text, CHOOSE k \in kept : \A j \in kept : k <= j,
                      CHOOSE k \in kept : \A j \in kept : k >= j)

\* substring(0, 120)
EscapeLimit == 120

\* escapeText(text) for a string
escapeText(text) ==
    IF text = << >> THEN << >>
    ELSE LET colons == escapeChar(text, ":")
             singles == escapeChar(colons, "'")
             doubles == escapeChar(singles, "\"")
             newlines == replaceBySpace(doubles, "\n")
             returns == replaceBySpace(newlines, "\r")
             tabs == replaceBySpace(returns, "\t")
             spaces == collapseWhitespace(tabs)
         IN  trim(slice(spaces, EscapeLimit))

\* Characters the tail of a text is drawn from, and its longest tail.
TailChars == {"a", " ", "\n", "'", "\"", ":", "\\"}
MaxTail == 2
\* Lengths of the run of plain characters before the tail: none, and the
\* lengths that put the tail on either side of the cut.
PadLengths == {0, EscapeLimit - 2, EscapeLimit - 1, EscapeLimit}
Texts ==
    {[k \in 1..pad |-> "a"] \o tail :
       pad \in PadLengths, tail \in UNION {[1..n -> TailChars] : n \in 0..MaxTail}}

InitEscape ==
    /\ envDevMode = Undefined
    /\ devMode = DEV_MODE(envDevMode)
    /\ InitRequest
    /\ reqFile = NoFile
    /\ reqBody = [prompt |-> Undefined, fps |-> Undefined, testMode |-> Undefined]
    /\ InitCache
    /\ input \in {Str(text) : text \in Texts}
    /\ output = Undefined

\* const feedbackText = this.escapeText(analysis.analysis)
EscapeText ==
    /\ input.present
    /\ ~output.present
    /\ output' = Str(escapeText(input.value))
    /\ UNCHANGED << input, overlayCommand, reqVars, httpVars, pvVars, cacheVars >>

NextEscape == EscapeText

SpecEscape == InitEscape /\ [][NextEscape]_vars

(***************************************************************************)
(* ClaudeService.analyzeFrame, called concurrently (as by the requests of  *)
(* several clients); one action per awaited step.                          *)
(***************************************************************************)
Callers == {"request1", "request2"}
\* a prompt of 200 characters, as a client may send in the prompt field
longPrompt == << Piece("Check the release of every jump shot ...", 200) >>
\* the prompts of frames 2 and 3 of a request with the long prompt
CallPrompts == { framePromptOf(longPrompt, 1, 3), framePromptOf(longPrompt, 2, 3) }
\* the (frame, prompt) pairs the callers pass: every frame content with the
\* prompt of frame 2, and one content also with the prompt of frame 3
CallPairs ==
    {pair \in FrameContents \X CallPrompts :
       \/ pair[2] = framePromptOf(longPrompt, 1, 3)
       \/ pair[1] = << Piece("jpegB", 1000), Piece("restB", 500) >>}

Idle == [pc |-> "idle", n |-> 0]

InitCalls ==
    /\ envDevMode = Str("false")
    /\ devMode = FALSE
    /\ InitRequest
    /\ InitFn
    /\ reqFile = NoFile
    /\ reqBody = [prompt |-> Undefined, fps |-> Undefined, testMode |-> Undefined]
    /\ cache = << >>
    /\ calls = [c \in Callers |-> Idle]
    /\ succeeded = {}
    /\ apiCalls = 0

\* analyzeFrame(frameBase64, prompt) is called
AFCall(c) ==
    /\ calls[c].pc \in {"idle", "fulfilled", "rejected"}
    /\ calls[c].n < MaxCalls
    /\ \E pair \in CallPairs :
         calls' = [calls EXCEPT ![c] =
                     [pc |-> "lookup", n |-> calls[c].n + 1,
                      frame |-> pair[1], prompt |-> pair[2],
                      later |-> pair \in succeeded,
                      posted |-> FALSE, result |-> << >>]]
    /\ UNCHANGED << input, output, overlayCommand, reqVars, httpVars, pvVars, cache, succeeded, apiCalls >>

\* pathExists(cacheFile): return cached.response, or send the frame to the API
AFLookup(c) ==
    /\ calls[c].pc = "lookup"
    /\ LET key == createCacheKey(calls[c].frame, calls[c].prompt)
       IN  IF pathExists(cache, key)
           THEN /\ calls' = [calls EXCEPT ![c].pc = "fulfilled",
                                          ![c].result = cache[key].response]
                /\ succeeded' = succeeded \cup {<< calls[c].frame, calls[c].prompt >>}
                /\ UNCHANGED apiCalls
           ELSE /\ calls' = [calls EXCEPT ![c].pc = "post", ![c].posted = TRUE]
                /\ apiCalls' = apiCalls + 1
                /\ UNCHANGED succeeded
    /\ UNCHANGED << input, output, overlayCommand, reqVars, httpVars, pvVars, cache >>

AFResponseMutCachesError(c) ==
    /\ calls[c].pc = "post"
    /\ \/ /\ \E text \in ApiTexts :
               calls' = [calls EXCEPT ![c].pc = "write", ![c].result = text]
          /\ UNCHANGED cache
       \/ /\ calls' = [calls EXCEPT ![c].pc = "rejected"]
          /\ cache' = writeJson(cache, createCacheKey(calls[c].frame, calls[c].prompt),
                                calls[c].prompt, <<"Claude", "API", "Error">>)
    /\ UNCHANGED << input, output, overlayCommand, reqVars, httpVars, pvVars, succeeded, apiCalls >>
\* axios.post settles: the text of the answer, or an error (rethrown)
AFResponse(c) ==
    /\ calls[c].pc = "post"
    /\ \/ \E text \in ApiTexts :
            calls' = [calls EXCEPT ![c].pc = "write", ![c].result = text]
       \/ calls' = [calls EXCEPT ![c].pc = "rejected"]
    /\ UNCHANGED << input, output, overlayCommand, reqVars, httpVars, pvVars, cache, succeeded, apiCalls >>

\* fs.writeJson(cacheFile, ...) succeeds and the result is returned, or it
\* fails and the error is rethrown
AFWrite(c) ==
    /\ calls[c].pc = "write"
    /\ \/ /\ cache' = writeJson(cache, createCacheKey(calls[c].frame, calls[c].prompt),
                                calls[c].prompt, calls[c].result)
          /\ calls' = [calls EXCEPT ![c].pc = "fulfilled"]
          /\ succeeded' = succeeded \cup {<< calls[c].frame, calls[c].prompt >>}
       \/ /\ calls' = [calls EXCEPT ![c].pc = "rejected"]
          /\ UNCHANGED << cache, succeeded >>
    /\ UNCHANGED << input, output, overlayCommand, reqVars, httpVars, pvVars, apiCalls >>

NextCalls ==
    \E c \in Callers : AFCall(c) \/ AFLookup(c) \/ AFResponse(c) \/ AFWrite(c)

SpecCalls == InitCalls /\ [][NextCalls]_vars

(***************************************************************************)
(* Properties.                                                             *)
(***************************************************************************)
normalMode == pvArgs.called /\ ~pvArgs.testMode /\ ~includes(pvArgs.prompt, NoOverlayTest)
answered(status) == res.sent /\ res.status = status

\* C1: an upload whose extension and MIME type both fail the allow-list is
\* answered with status 400.
C1_RejectedUploadGets400 ==
    ( /\ reqFile.present
      /\ ~hasValidExtension(reqFile.originalname)
      /\ ~hasValidMimeType(reqFile.mimetype)
      /\ res.sent )
    => res.status = 400

C2_Inv ==
    (res.sent /\ res.status # 408 /\ requestTimeout # "unset")
    => requestTimeout = "cleared"
C2_Step ==
    /\ (requestTimeout = "armed" /\ requestTimeout' = "fired" /\ ~res.sent)
       => (res'.sent /\ res'.status = 408)
    /\ (res'.sent /\ res'.status = 408 /\ res' # res)
       => (~res.sent /\ requestTimeout = "armed" /\ requestTimeout' = "fired")
\* C2: when the 300 s timer fires while no response has been sent the answer
\* is 408; a 408 is only ever sent by the timer on a pending request; and
\* whenever the handler answered first the timer has been cancelled.
C2_TimeoutOnlyWhilePending == [](C2_Inv) /\ [][C2_Step]_vars
C2_Witness ==
    /\ reqFile.present
    /\ requestTimeout = "fired"
    /\ answered(408)
    /\ pvResult.state = "pending"

\* C3: a frame after the first whose inference call was rejected or timed
\* out gets exactly the placeholder text, the failure does not reject
\* processVideo, and the loop goes on to give every frame its entry.
C3_FailedFrameGetsPlaceholder ==
    /\ Len(outcomes) = Len(frameAnalyses)
    /\ \A k \in 2..Len(outcomes) :
         outcomes[k] \in {"rejected", "timeout"}
         => frameAnalyses[k].analysis = <<"Analysis", "failed", "for", "this", "frame">>
    /\ pvResult.state = "rejected"
       => pvResult.message \in {"ffprobe failed", "ffmpeg exited with code 1",
                                "Frame extraction timed out",
                                "ffmpeg failed (clean video)", "ffmpeg failed (overlay)",
                                "copy failed", "ffmpeg failed (no overlays)"}
    /\ (pv = "overlay" \/ (pv = "settled" /\ sortedFrames # << >>))
       => Len(frameAnalyses) = Len(sortedFrames)
C3_Witness ==
    /\ pvResult.state = "resolved"
    /\ ~devMode
    /\ Len(outcomes) >= 3
    /\ outcomes[2] = "rejected"
    /\ outcomes[3] = "timeout"
    /\ pvResult.value.analysis[2].analysis = AnalysisFailed
    /\ Len(pvResult.value.analysis) = Len(sortedFrames)

C4_Inv ==
    \A c \in Callers :
      (calls[c].pc # "idle" /\ calls[c].later)
      => (~calls[c].posted /\ calls[c].pc \in {"lookup", "fulfilled"})
C4_Step ==
    \A c \in Callers :
      (calls[c].pc = "lookup" /\ calls[c].later /\ calls'[c] # calls[c])
      => /\ calls'[c].pc = "fulfilled"
         /\ calls'[c].result = cache[createCacheKey(calls[c].frame, calls[c].prompt)].response
         /\ apiCalls' = apiCalls
\* C4: a call of analyzeFrame made after analyzeFrame has succeeded for the
\* same (frame, prompt) pair returns the stored response and issues no
\* outbound API call.
C4_RepeatedPairHitsCache == [](C4_Inv) /\ [][C4_Step]_vars
C4_Witness ==
    \E c \in Callers :
      /\ calls[c].pc = "fulfilled"
      /\ calls[c].later
      /\ ~calls[c].posted
      /\ apiCalls >= 1

\* C5: in normal mode the returned analysis list never has more than 30
\* entries, and for a video of known duration with ceil(duration * fps) <= 30
\* it has exactly ceil(duration * fps) entries.
C5_FrameCount ==
    (pvResult.state = "resolved" /\ normalMode)
    => /\ Len(pvResult.value.analysis) <= 30
       /\ (duration.present /\ Ceil(duration.value * pvArgs.fps, DurUnit) <= 30)
          => Len(pvResult.value.analysis) = Ceil(duration.value * pvArgs.fps, DurUnit)
C5_Witness ==
    /\ pvResult.state = "resolved"
    /\ normalMode
    /\ duration.present
    /\ pvArgs.fps = 9
    /\ Ceil(duration.value * 9, DurUnit) <= 30
    /\ Len(pvResult.value.analysis) = Ceil(duration.value * 9, DurUnit)
    /\ Len(pvResult.value.analysis) > 2

\* C6: in normal mode the first entry of the analysis list has timestamp
\* '0.00' and an empty analysis, and no inference call was made for it,
\* whatever happened to the later frames.
C6_FirstFrameEmpty ==
    /\ Len(frameAnalyses) >= 1
       => /\ frameAnalyses[1].timestamp = << 0, 0 >>
          /\ frameAnalyses[1].analysis = << >>
          /\ outcomes[1] = "skipped"
    /\ (pvResult.state = "resolved" /\ normalMode)
       => /\ Len(pvResult.value.analysis) >= 1
          /\ pvResult.value.analysis[1].timestamp = << 0, 0 >>
          /\ pvResult.value.analysis[1].analysis = << >>
C6_Witness ==
    /\ pvResult.state = "resolved"
    /\ normalMode
    /\ Len(outcomes) >= 3
    /\ outcomes[2] = "timeout"
    /\ outcomes[3] = "fulfilled"
    /\ pvResult.value.analysis[1].analysis = << >>

\* C7: a request without a file is answered 400 and processVideo is never
\* invoked for it.
C7_NoFileGets400 ==
    ~reqFile.present
    => /\ ~pvArgs.called
       /\ pv = "idle"
       /\ pvResult.state = "pending"
       /\ res.sent => res.status = 400
       /\ pc = "done" => answered(400)
C7_Witness == ~reqFile.present /\ pc = "done" /\ answered(400)

pipelineFailed ==
    /\ pvResult.state = "rejected"
    /\ pvResult.message \in {"ffprobe failed", "ffmpeg exited with code 1",
                             "Frame extraction timed out",
                             "ffmpeg failed (clean video)", "ffmpeg failed (overlay)"}
\* C8 as stated: when the probe, the extraction, the clean re-encode or the
\* overlay burn-in fails, the request is answered 500 with the error message
\* as details, and no success response is sent.
C8_FailureGets500 ==
    (pipelineFailed /\ pc = "done")
    => /\ answered(500)
       /\ res.body.details = pvResult.message
\* C8 as amended: ... the request is answered 500 with the error message as
\* details unless the 300 s timer has already answered 408; in both cases no
\* success response is sent or attempted.
C8_FailureGets500Unless408 ==
    /\ (pipelineFailed /\ pc = "done")
       => /\ res.sent
          /\ \/ res.status = 500 /\ res.body.details = pvResult.message
             \/ res.status = 408 /\ requestTimeout = "fired"
    /\ pipelineFailed
       => /\ res.sent => res.status # 200
          /\ \A k \in 1..Len(failedSends) : failedSends[k] # 200
C8_Witness ==
    /\ pc = "done"
    /\ pvResult = Rejected("Frame extraction timed out")
    /\ answered(500)
    /\ res.body.details = "Frame extraction timed out"

\* C9: every successful response carries a processed-video URL, the analysis
\* list, and a feedback field that is a summary object with totalFrames and
\* accuracy, never a bare string.
C9_FeedbackIsSummaryObject ==
    answered(200)
    => /\ {"processedVideo", "analysis", "feedback"} \subseteq DOMAIN res.body
       /\ res.body.feedback.type = "object"
       /\ {"totalFrames", "accuracy"} \subseteq DOMAIN res.body.feedback.value

\* C10: the feedback object of a successful normal-mode response has the
\* documented fields totalFrames, shotCount, madeCount, missedCount, accuracy.
C10_DocumentedFeedbackFields ==
    (answered(200) /\ normalMode)
    => /\ res.body.feedback.type = "object"
       /\ {"totalFrames", "shotCount", "madeCount", "missedCount", "accuracy"}
            \subseteq DOMAIN res.body.feedback.value


\* the per-frame inference calls processVideo has started so far
inferenceCalls == {k \in 1..Len(started) : started[k].step = "inference"}

C12_ProcessVideoSettles == pvArgs.called ~> (pvResult.state # "pending")

\* C13: when the environment variable DEV_MODE is set to a value other than
\* 'true', every per-frame call goes to the real client analyzeFrame under
\* the 30 s timeout.
C13_EnvSwitchesToRealClient ==
    (envDevMode.present /\ envDevMode # Str("true"))
    => \A k \in inferenceCalls :
          /\ started[k].client = "analyzeFrame"
          /\ started[k].timeoutMs = ApiTimeoutMs

RECURSIVE dropDigits(_)
dropDigits(s) ==
    IF s = << >> \/ s[1] \notin DOMAIN digitValue THEN s ELSE dropDigits(Tail(s))
RECURSIVE pow10(_)
pow10(n) == IF n = 0 THEN 1 ELSE 10 * pow10(n - 1)
\* the decimal number a field's text denotes, as << numerator, denominator >>
requestedRate(field) ==
    LET s == field.value
        neg == s # << >> /\ s[1] = "-"
        body == IF s # << >> /\ s[1] \in {"-", "+"} THEN Tail(s) ELSE s
        rest == dropDigits(body)
        afterPoint == IF rest # << >> /\ rest[1] = "." THEN Tail(rest) ELSE << >>
        fraction == SubSeq(afterPoint, 1, Len(afterPoint) - Len(dropDigits(afterPoint)))
        den == pow10(Len(fraction))
        num == leadingDigits(body, Num(0)).val * den + leadingDigits(fraction, Num(0)).val
    IN  << IF neg THEN -num ELSE num, den >>

\* C14: the pipeline runs at the frame rate the fps field asks for (fractional
\* values included) and at 1 when the field is omitted, and the timestamps of
\* the analysis entries are computed with that rate.
C14_RequestedRateIsUsed ==
    pvArgs.called
    => /\ IF reqBody.fps.present
          THEN pvArgs.fps * requestedRate(reqBody.fps)[2] = requestedRate(reqBody.fps)[1]
          ELSE pvArgs.fps = 1
       /\ \A k \in 1..Len(frameAnalyses) :
             frameAnalyses[k].timestamp = toFixed2(k - 1, pvArgs.fps)

\* timestamps << whole, hundredths >> in numeric order
timestampLeq(a, b) == a[1] < b[1] \/ (a[1] = b[1] /\ a[2] <= b[2])

C16_CacheKeysOnlyGrow ==
    [][\A key \in DOMAIN cache : key \in DOMAIN cache']_vars
C16_Witness ==
    /\ Cardinality(DOMAIN cache) = 2
    /\ \E c \in Callers : calls[c].pc = "fulfilled" /\ ~calls[c].posted

\* C17: when the outbound API call of analyzeFrame fails, the call rejects and
\* the cache is left as it was; every cached response is an answer of the API.
C17_Inv ==
    \A key \in DOMAIN cache : cache[key].response \in ApiTexts
C17_Step ==
    \A c \in Callers :
       (calls[c].pc = "post" /\ calls'[c].pc # "post")
       => \/ calls'[c].pc = "write"
          \/ calls'[c].pc = "rejected" /\ cache' = cache
C17_FailedCallLeavesCache == [](C17_Inv) /\ [][C17_Step]_vars
C17_Witness ==
    \E c \in Callers :
       /\ calls[c].pc = "rejected"
       /\ calls[c].posted
       /\ calls[c].result = << >>
       /\ ~pathExists(cache, createCacheKey(calls[c].frame, calls[c].prompt))

\* C18: nothing is retried: no external step is started twice and at most one
\* inference call is started per sampled frame.
C18_NothingStartedTwice ==
    /\ \A j, k \in 1..Len(started) : j # k => started[j] # started[k]
    /\ \A j, k \in inferenceCalls : j # k => started[j].frame # started[k].frame
    /\ \A k \in inferenceCalls : started[k].frame \in 1..(Len(sortedFrames) - 1)
C18_Witness ==
    /\ pvResult = Rejected("ffmpeg failed (overlay)")
    /\ Len(outcomes) >= 3
    /\ outcomes[2] = "rejected"
    /\ outcomes[3] = "timeout"
    /\ Cardinality(inferenceCalls) = Len(sortedFrames) - 1

\* C19: with the test-mode flag set, processVideo starts no probe, no
\* extraction, no inference call and no re-encode, leaves the upload as it
\* is, and resolves with a copy of the original and an empty analysis list.
C19_Inv ==
    (pvArgs.called /\ reqBody.testMode = Str(<<"t", "r", "u", "e">>))
    => /\ started = << >>
       /\ inflight = {}
       /\ apiCalls = 0
       /\ frameAnalyses = << >>
       /\ pvResult.state = "resolved"
          => /\ pvResult.value.analysis = << >>
             /\ pvResult.value.processedVideoPath = outputPath("original-")
C19_Step == reqFile' = reqFile
C19_TestModeOnlyCopies == [](C19_Inv) /\ [][C19_Step]_vars
C19_Witness ==
    /\ reqBody.testMode = Str(<<"t", "r", "u", "e">>)
    /\ pvResult.state = "resolved"
    /\ answered(200)
    /\ res.body.analysis = << >>

\* C20: every request gets exactly one response: once one is sent the handler
\* never sends, or attempts to send, another.
C20_ExactlyOneResponse ==
    /\ failedSends = << >>
    /\ pc = "done" => res.sent

\* C21: the entry with timestamp i/fps names the (i+1)-th frame in extraction
\* order, frame-(i+1).jpg: sorting the frame file names keeps their numeric
\* order.
C21_EntryNamesSampledFrame ==
    /\ \A k \in 1..Len(sortedFrames) : sortedFrames[k] = k
    /\ \A k \in 1..Len(frameAnalyses) :
          /\ frameAnalyses[k].timestamp = toFixed2(k - 1, pvArgs.fps)
          /\ frameAnalyses[k].frame = k

\* C25: when normal-mode processVideo has settled, resolved or rejected, the
\* frames directory and the intermediate clean video no longer exist.
C25_TempFilesRemovedOnSettle ==
    (normalMode /\ pvResult.state # "pending") => tempFiles = {}

\* C26: for every request that reaches frame extraction the effective fps is
\* an integer of at least 1 and the frame cap lies between 1 and 30.
C26_FpsAndCapInRange ==
    (\E k \in 1..Len(started) : started[k].step = "extractFrames")
    => /\ pvArgs.fps >= 1
       /\ maxFrames \in 1..FrameCap

\* the analysis entries of the request that the claim's three conditions
\* select, and the entries the built command overlays
C22_qualifying ==
    {k \in 1..Len(frameAnalyses) :
       /\ charLength(frameAnalyses[k].analysis) > 20
       /\ parseFloat(frameAnalyses[k].timestamp) > 50
       /\ ~includesPhrase(frameAnalyses[k].analysis, <<"analysis", "failed">>)
       /\ ~includesPhrase(frameAnalyses[k].analysis, <<"unable", "to", "analyze">>)}
C22_feedbackOverlays ==
    {k \in 1..Len(overlayCommand.filters) : "entry" \in DOMAIN overlayCommand.filters[k]}
C22_statsOverlays ==
    {k \in 1..Len(overlayCommand.filters) : "stats" \in DOMAIN overlayCommand.filters[k]}

\* C22: the command built by createVideoWithOverlay has one feedback overlay
\* for exactly the entries longer than 20 characters, later than 0.5 s and
\* free of 'analysis failed' / 'unable to analyze'; never one for the first
\* frame or a placeholder; and no drawtext filter at all when none qualifies.
C22_OverlaysExactlyMeaningful ==
    overlayCommand.run
    => /\ {overlayCommand.filters[k].entry : k \in C22_feedbackOverlays}
            = {frameAnalyses[k].frame : k \in C22_qualifying}
       /\ Cardinality(C22_feedbackOverlays) = Cardinality(C22_qualifying)
       /\ \A k \in C22_feedbackOverlays :
             /\ overlayCommand.filters[k].entry # frameAnalyses[1].frame
             /\ \A j \in 1..Len(frameAnalyses) :
                   frameAnalyses[j].analysis = AnalysisFailed
                   => overlayCommand.filters[k].entry # frameAnalyses[j].frame
       /\ IF C22_qualifying = {}
          THEN overlayCommand.filters = << >>
          ELSE Cardinality(C22_statsOverlays) = 1
C22_Witness ==
    /\ overlayCommand.run
    /\ Cardinality(C22_feedbackOverlays) >= 1
    /\ \E j \in 1..Len(frameAnalyses) :
          /\ frameAnalyses[j].analysis = AnalysisFailed
          /\ parseFloat(frameAnalyses[j].timestamp) > 50
    /\ \E j \in 2..Len(frameAnalyses) :
          /\ charLength(frameAnalyses[j].analysis) > 20
          /\ j \notin C22_qualifying

\* C30: the made and missed numbers of the stats overlay equal the made and
\* missed totals of the summary returned for the same request, whenever the
\* video gets at least one overlay.
C30_StatsOverlayMatchesSummary ==
    (normalMode /\ pvResult.state = "resolved" /\ overlayCommand.filters # << >>)
    => LET stats == overlayCommand.filters[1].stats
           summary == pvResult.value.feedback.value
       IN  IF summary.hasStructuredData
           THEN /\ stats.made = summary.totalShotsMade
                /\ stats.missed = summary.totalShotsMissed
           ELSE /\ stats.made = summary.madeCount
                /\ stats.missed = summary.missedCount

\* the number of backslashes that stand directly before position k of text
C23_backslashesBefore(text, k) ==
    LET run == {n \in 0..(k - 1) : \A j \in (k - n)..(k - 1) : text[j] = "\\"}
    IN  CHOOSE n \in run : \A m \in run : m <= n

\* C23: the text escapeText returns is at most 120 characters long, has no
\* newline, carriage return or tab, has an odd number of backslashes directly
\* before every single quote, double quote and colon (so the last of them
\* escapes the character and is not itself escaped), and does not end with an
\* unpaired backslash.
C23_EscapedTextIsSafe ==
    output.present
    => LET text == output.value IN
       /\ Len(text) <= 120
       /\ \A k \in 1..Len(text) :
             /\ text[k] \notin {"\n", "\r", "\t"}
             /\ text[k] \in {"'", "\"", ":"}
                => C23_backslashesBefore(text, k) % 2 = 1
       /\ C23_backslashesBefore(text, Len(text) + 1) % 2 = 0

\* C24: a call of analyzeFrame that is served from the cache gets a response
\* produced for its own frame and prompt: whenever a lookup hits, analyzeFrame
\* has succeeded before for exactly this (frame, prompt) pair, so the entry
\* is not the answer to a call with another frame or another prompt.
C24_HitIsOwnResponse ==
    [][\A c \in Callers :
         (calls[c].pc = "lookup" /\ calls'[c].pc = "fulfilled")
         => << calls[c].frame, calls[c].prompt >> \in succeeded]_vars

\* what the loop makes of a mock payload: the feedback of its last shot (or
\* the fallback text) with the payload kept, or 'No shot data available'
C27_Expected(entry, payload) ==
    IF "shots" \in DOMAIN payload /\ Len(payload.shots) > 0
    THEN /\ "structuredData" \in DOMAIN entry
         /\ entry.structuredData = payload
         /\ entry.analysis = IF payload.shots[Len(payload.shots)].feedback = << >>
                             THEN <<"No", "specific", "feedback", "available">>
                             ELSE payload.shots[Len(payload.shots)].feedback
    ELSE /\ "structuredData" \notin DOMAIN entry
         /\ entry.analysis = <<"No", "shot", "data", "available">>
\* C27: in dev mode, a frame after the first whose mock response arrived adds
\* exactly one entry; its analysis is the feedback of the last shot of that
\* response (or 'No specific feedback available') with the parsed payload as
\* structuredData, or 'No shot data available' without structuredData when the
\* payload has no shots.  (Every mock response is JSON, so the raw-text case
\* does not arise.)
C27_DevEntryFromLastShot ==
    [][(devMode /\ Len(frameAnalyses) >= 1 /\ frameAnalyses' # frameAnalyses
        /\ outcomes'[Len(outcomes')] = "fulfilled")
       => /\ Len(frameAnalyses') = Len(frameAnalyses) + 1
          /\ SubSeq(frameAnalyses', 1, Len(frameAnalyses)) = frameAnalyses
          /\ \E r \in 1..Len(mockResponses) :
                C27_Expected(frameAnalyses'[Len(frameAnalyses')], mockResponses[r])]_vars
C27_Witness ==
    /\ devMode
    /\ \E k \in 2..Len(frameAnalyses) :
          /\ outcomes[k] = "fulfilled"
          /\ "structuredData" \in DOMAIN frameAnalyses[k]
          /\ LET shots == frameAnalyses[k].structuredData.shots IN
             /\ Len(shots) >= 2
             /\ frameAnalyses[k].analysis = shots[Len(shots)].feedback
             /\ frameAnalyses[k].analysis # shots[1].feedback

\* the analysis list and the summary of a request that processVideo resolved
C28_analysis == pvResult.value.analysis
C28_summary == pvResult.value.feedback.value
\* the shot records of all entries with structuredData, as (entry, shot) pairs
C28_shotRecords ==
    UNION {{<< k, j >> : j \in 1..Len(C28_analysis[k].structuredData.shots)} :
             k \in {k \in 1..Len(C28_analysis) : "structuredData" \in DOMAIN C28_analysis[k]}}
C28_withResult(result) ==
    {p \in C28_shotRecords :
       C28_analysis[p[1]].structuredData.shots[p[2]].result = result}

\* C28: when an entry of the analysis list carries structuredData the summary
\* has hasStructuredData = true, totalShotsMade and totalShotsMissed are the
\* numbers of 'made' and 'missed' shot records of all such entries, totalShots
\* is their sum, totalLayupsMade is at most totalShotsMade and totalFrames is
\* the length of the list; otherwise the summary has hasStructuredData = false
\* and the keyword counts shotCount, madeCount and missedCount.
C28_SummaryCountsShotRecords ==
    (normalMode /\ pvResult.state = "resolved")
    => IF \E k \in 1..Len(C28_analysis) : "structuredData" \in DOMAIN C28_analysis[k]
       THEN /\ C28_summary.hasStructuredData
            /\ C28_summary.totalShotsMade = Cardinality(C28_withResult("made"))
            /\ C28_summary.totalShotsMissed = Cardinality(C28_withResult("missed"))
            /\ C28_summary.totalShots
                 = C28_summary.totalShotsMade + C28_summary.totalShotsMissed
            /\ C28_summary.totalLayupsMade <= C28_summary.totalShotsMade
            /\ C28_summary.totalFrames = Len(C28_analysis)
       ELSE /\ ~C28_summary.hasStructuredData
            /\ {"shotCount", "madeCount", "missedCount"} \subseteq DOMAIN C28_summary
            /\ C28_summary.totalFrames = Len(C28_analysis)
C28_Witness ==
    /\ normalMode
    /\ pvResult.state = "resolved"
    /\ C28_summary.hasStructuredData
    /\ Len(C28_analysis) >= 3
    /\ C28_summary.totalShotsMade >= 2
    /\ C28_summary.totalShotsMissed >= 2
    /\ C28_summary.totalLayupsMade >= 1

====
